---- MODULE Spec2Model ----
(***************************************************************************)
(* gotfiles: backing up tracked dotfiles into <cwd>/dotfiles, replacing    *)
(* the originals in the home directory by symlinks, then running git.      *)
(*                                                                         *)
(* The filesystem is one tree: a function from absolute paths (sequences   *)
(* of names) to nodes.  A node is a directory, a regular file with its     *)
(* bytes, or a symlink with its (absolute) target.  The os calls the       *)
(* program makes are operators on that tree, following POSIX path          *)
(* resolution (symlinks in intermediate components are followed).          *)
(***************************************************************************)
EXTENDS Integers, Sequences, FiniteSets, TLC

(***************************************************************************)
(* Bounds of the model.                                                    *)
(***************************************************************************)
\* longest config list
MaxItems == 2
\* invocations of the program in one behaviour
MaxRuns == 2
\* injected I/O or git failures in one behaviour
MaxFaults == 1
\* symlinks followed in one path resolution before ELOOP
MaxHops == 3
\* PATH_MAX, in components: a longer path given to an os call is ENAMETOOLONG
MaxPath == 7

(***************************************************************************)
(* Nodes and paths.                                                        *)
(***************************************************************************)
Dir == [kind |-> "dir", data |-> <<>>, target |-> <<>>]
File(bytes) == [kind |-> "file", data |-> bytes, target |-> <<>>]
Link(to) == [kind |-> "link", data |-> <<>>, target |-> to]
\* A named pipe (mkfifo): what os.Open does with it is in copyFile.
Fifo == [kind |-> "fifo", data |-> <<>>, target |-> <<>>]

\* The names used in the model, in byte order (ioutil.ReadDir sorts by name).
SortedNames == <<"a", "config.json", "d", "dotfiles", "f", "gone", "h", "k", "p", "r", "s", "x">>
NameRank(nm) == CHOOSE j \in 1..Len(SortedNames) : SortedNames[j] = nm

IsPrefix(p, q) == Len(p) <= Len(q) /\ SubSeq(q, 1, Len(p)) = p
Parent(p) == SubSeq(p, 1, Len(p) - 1)
Base(p) == p[Len(p)]

\* filepath.Join of two cleaned paths
Join(p, q) == p \o q

\* os.UserHomeDir() and os.Getwd().  os.UserHomeDir is $HOME, and an error
\* when $HOME is unset or empty (UserHomeDirOf, with <<>> for such a $HOME)
UserHomeDir == <<"h">>
UserHomeDirOf(home) ==
  IF home = <<>> THEN [err |-> "$HOME is not defined", dir |-> <<>>]
  ELSE [err |-> "", dir |-> home]
Getwd == <<"r">>
ConfigName == "config.json"

(***************************************************************************)
(* Path resolution.  cur is the canonical path of a directory already      *)
(* reached, rest the components still to walk.  The result names the       *)
(* canonical path reached, or the place where the walk failed; final says  *)
(* that only the last component is missing (so it can be created).         *)
(***************************************************************************)
RECURSIVE Walk(_, _, _, _, _)
Walk(fs, cur, rest, follow, hops) ==
  IF rest = <<>> THEN [err |-> "", path |-> cur, final |-> FALSE]
  ELSE LET nxt == Append(cur, Head(rest))
           tl == Tail(rest)
       IN IF nxt \notin DOMAIN fs
          THEN [err |-> "ENOENT", path |-> nxt, final |-> (tl = <<>>)]
          ELSE IF fs[nxt].kind = "link" /\ (tl # <<>> \/ follow)
          THEN IF hops = 0
               THEN [err |-> "ELOOP", path |-> nxt, final |-> FALSE]
               ELSE Walk(fs, <<>>, fs[nxt].target \o tl, follow, hops - 1)
          ELSE IF tl # <<>> /\ fs[nxt].kind # "dir"
          THEN [err |-> "ENOTDIR", path |-> nxt, final |-> FALSE]
          ELSE Walk(fs, nxt, tl, follow, hops)

\* the path an os call is given: too long a path is refused before any walk
Resolve(fs, p, follow) ==
  IF Len(p) > MaxPath THEN [err |-> "ENAMETOOLONG", path |-> p, final |-> FALSE]
  ELSE Walk(fs, <<>>, p, follow, MaxHops)

\* os.IsNotExist: ENOENT only (ENOTDIR is not "not exist")
IsNotExist(err) == err = "ENOENT"

(***************************************************************************)
(* The os calls.  Each returns [err, fs] (and what it read).               *)
(***************************************************************************)
\* os.Lstat: the last component is not followed
Lstat(fs, p) ==
  LET r == Resolve(fs, p, FALSE)
  IN [err |-> r.err, kind |-> IF r.err = "" THEN fs[r.path].kind ELSE "none"]

\* os.Stat: the last component is followed
Stat(fs, p) ==
  LET r == Resolve(fs, p, TRUE)
  IN [err |-> r.err, kind |-> IF r.err = "" THEN fs[r.path].kind ELSE "none"]

\* the error of os.Getwd: the working directory of the process ($PWD names
\* it) has been removed
GetwdErr(fs) ==
  LET r == Resolve(fs, Getwd, TRUE)
  IN IF r.err # "" THEN "ENOENT" ELSE IF fs[r.path].kind # "dir" THEN "ENOENT" ELSE ""

\* os.Open is open(2) with O_RDONLY: on a named pipe it returns only once some
\* process opens the pipe for writing, and gotfiles starts no such process.
OpenBlocks(fs, p) ==
  LET r == Resolve(fs, p, TRUE) IN r.err = "" /\ fs[r.path].kind = "fifo"

\* os.Open (read only): the open file is the node at the canonical path; a
\* call that never returns has the error "blocked"
Open(fs, p) ==
  LET r == Resolve(fs, p, TRUE)
  IN IF r.err = "" /\ fs[r.path].kind = "fifo" THEN [r EXCEPT !.err = "blocked"]
     ELSE r

\* os.Mkdir
Mkdir(fs, p) ==
  LET r == Resolve(fs, p, FALSE)
  IN IF r.err = "" THEN [err |-> "EEXIST", fs |-> fs]
     ELSE IF r.err = "ENOENT" /\ r.final
     THEN [err |-> "", fs |-> (r.path :> Dir) @@ fs]
     ELSE [err |-> r.err, fs |-> fs]

\* os.MkdirAll: Stat fast path, then the parent, then Mkdir, then the Lstat
\* double check
RECURSIVE MkdirAll(_, _)
MkdirAll(fs, p) ==
  LET st == Stat(fs, p)
  IN IF st.err = ""
     THEN [err |-> IF st.kind = "dir" THEN "" ELSE "ENOTDIR", fs |-> fs]
     ELSE LET up == IF Len(p) > 1 THEN MkdirAll(fs, Parent(p))
                    ELSE [err |-> "", fs |-> fs]
          IN IF up.err # "" THEN up
             ELSE LET mk == Mkdir(up.fs, p)
                      ls == Lstat(mk.fs, p)
                  IN IF mk.err # "" /\ ls.err = "" /\ ls.kind = "dir"
                     THEN [err |-> "", fs |-> mk.fs]
                     ELSE mk

\* os.MkdirAll cut short: the directories it has made when it has not yet
\* returned, as the number of components of p down to which they exist
PartlyMade(fs, p) ==
  {k \in 1..(Len(p) - 1) :
     /\ MkdirAll(fs, SubSeq(p, 1, k)).err = ""
     /\ MkdirAll(fs, SubSeq(p, 1, k)).fs # fs
     /\ MkdirAll(fs, SubSeq(p, 1, k)).fs # MkdirAll(fs, p).fs}

\* the tree when the directories down to component dirs have been made
MkdirAllPartly(fs, p, dirs) ==
  IF dirs \in 1..(Len(p) - 1) THEN MkdirAll(fs, SubSeq(p, 1, dirs))
  ELSE [err |-> "", fs |-> fs]

\* os.Create: O_RDWR|O_CREATE|O_TRUNC, the last component is followed; a
\* named pipe opened for reading and writing opens at once and stays a pipe
Create(fs, p) ==
  LET r == Resolve(fs, p, TRUE)
  IN IF r.err = ""
     THEN IF fs[r.path].kind = "dir"
          THEN [err |-> "EISDIR", fs |-> fs, path |-> r.path]
          ELSE IF fs[r.path].kind = "fifo"
          THEN [err |-> "", fs |-> fs, path |-> r.path]
          ELSE [err |-> "", fs |-> [fs EXCEPT ![r.path] = File(<<>>)], path |-> r.path]
     ELSE IF r.err = "ENOENT" /\ r.final
     THEN [err |-> "", fs |-> (r.path :> File(<<>>)) @@ fs, path |-> r.path]
     ELSE [err |-> r.err, fs |-> fs, path |-> r.path]

\* io.Copy(output, input) on two open files: what the input holds now is
\* written to the output; reading an open directory fails; what is written
\* into a named pipe is not kept in the tree
IoCopy(fs, out, in) ==
  IF fs[in].kind = "dir" THEN [err |-> "EISDIR", fs |-> fs]
  ELSE IF fs[out].kind = "fifo" THEN [err |-> "", fs |-> fs]
  ELSE [err |-> "", fs |-> [fs EXCEPT ![out] = File(fs[in].data)]]

\* io.Copy cut short: the first bytes of the input have been written
IoCopyPartly(fs, out, in, bytes) ==
  IF fs[in].kind = "dir" THEN [err |-> "EISDIR", fs |-> fs]
  ELSE IF fs[out].kind = "fifo" THEN [err |-> "", fs |-> fs]
  ELSE LET n == IF bytes < Len(fs[in].data) THEN bytes ELSE Len(fs[in].data)
       IN [err |-> "", fs |-> [fs EXCEPT ![out] = File(SubSeq(fs[in].data, 1, n))]]

\* the numbers of bytes io.Copy can have written when it has not returned, or
\* returns an error: a part of the input, or all of it (the error comes after
\* the last write)
PartlyCopied(fs, out, in) ==
  IF fs[in].kind = "file" /\ fs[out].kind = "file"
  THEN 1..Len(fs[in].data) ELSE {}

\* os.Remove: unlink, or rmdir of an empty directory
Remove(fs, p) ==
  LET r == Resolve(fs, p, FALSE)
  IN IF r.err # "" THEN [err |-> r.err, fs |-> fs]
     ELSE IF fs[r.path].kind = "dir" /\ \E q \in DOMAIN fs : Parent(q) = r.path /\ q # <<>>
     THEN [err |-> "ENOTEMPTY", fs |-> fs]
     ELSE [err |-> "", fs |-> [q \in DOMAIN fs \ {r.path} |-> fs[q]]]

\* os.RemoveAll: os.Remove(p) first.  When that fails with more than "not
\* exist", the parent directory is opened with os.Open (the root always
\* opens) and the entry is removed from it by name, with the whole subtree
\* below it; symlinks inside are not followed.
RemoveAll(fs, p) ==
  LET rm == Remove(fs, p)
      parent == IF Len(p) > 1 THEN Open(fs, Parent(p))
                ELSE [err |-> "", path |-> <<>>, final |-> FALSE]
      q == Append(parent.path, Base(p))
  IN IF rm.err = "" THEN rm
     ELSE IF IsNotExist(rm.err) \/ IsNotExist(parent.err) THEN [err |-> "", fs |-> fs]
     ELSE IF parent.err # "" THEN [err |-> parent.err, fs |-> fs]
     ELSE IF parent.path # <<>> /\ fs[parent.path].kind # "dir"
     THEN [err |-> "ENOTDIR", fs |-> fs]
     ELSE IF q \notin DOMAIN fs THEN [err |-> "", fs |-> fs]
     ELSE [err |-> "", fs |-> [x \in {x \in DOMAIN fs : ~IsPrefix(q, x)} |-> fs[x]]]

\* os.RemoveAll cut short.  It removes entry by entry, in the order the
\* directory returns them, all below a directory before the directory, and one
\* subdirectory after the other; past an entry it could not remove it goes on
\* with the next.  PartlyBelow is the sets of entries below directory d that
\* can be gone when d is still there: some of its entries with all below
\* them, and part of what is below one more subdirectory.
RECURSIVE PartlyBelow(_, _)
PartlyBelow(fs, d) ==
  LET kids == {q \in DOMAIN fs : q # <<>> /\ Parent(q) = d}
      Sub(c) == {q \in DOMAIN fs : IsPrefix(c, q)}
      Begun(F) ==
        UNION {PartlyBelow(fs, c) \ {{}} : c \in {c \in kids \ F : fs[c].kind = "dir"}}
  IN UNION {{UNION {Sub(c) : c \in F} \cup R : R \in {{}} \cup Begun(F)} :
              F \in SUBSET kids}

\* PartlyRemoved is the sets of entries that can be gone when os.RemoveAll(p)
\* has not returned, or returns an error.
PartlyRemoved(fs, p) ==
  LET r == Resolve(fs, p, FALSE)
  IN IF r.err # "" \/ fs[r.path].kind # "dir" THEN {{}}
     ELSE PartlyBelow(fs, r.path)

\* the tree when the entries gone have been removed; a set that is no part of
\* a removal leaves the tree as it is
RemoveAllPartly(fs, p, gone) ==
  IF gone \in PartlyRemoved(fs, p)
  THEN [err |-> "", fs |-> [q \in DOMAIN fs \ gone |-> fs[q]]]
  ELSE [err |-> "", fs |-> fs]

\* os.Symlink(oldname, newname)
Symlink(fs, oldname, newname) ==
  LET r == Resolve(fs, newname, FALSE)
  IN IF r.err = "" THEN [err |-> "EEXIST", fs |-> fs]
     ELSE IF r.err = "ENOENT" /\ r.final
     THEN [err |-> "", fs |-> (r.path :> Link(oldname)) @@ fs]
     ELSE [err |-> r.err, fs |-> fs]

\* the names in directory dir (a canonical path), sorted
RECURSIVE SortNames(_)
SortNames(S) ==
  IF S = {} THEN <<>>
  ELSE LET m == CHOOSE x \in S : \A y \in S : NameRank(x) <= NameRank(y)
       IN <<m>> \o SortNames(S \ {m})

\* ioutil.ReadDir: Open, then the entries, each with the kind that lstat of
\* dirname/name gives (a path too long for lstat when dirname is as long as a
\* path can be), sorted by name
ReadDir(fs, p) ==
  LET r == Open(fs, p)
  IN IF r.err # "" THEN [err |-> r.err, entries |-> <<>>]
     ELSE IF fs[r.path].kind # "dir" THEN [err |-> "ENOTDIR", entries |-> <<>>]
     ELSE IF Len(p) + 1 > MaxPath /\ \E q \in DOMAIN fs : q # <<>> /\ Parent(q) = r.path
     THEN [err |-> "ENAMETOOLONG", entries |-> <<>>]
     ELSE LET names == {Base(q) : q \in {q \in DOMAIN fs : q # <<>> /\ Parent(q) = r.path}}
              sorted == SortNames(names)
          IN [err |-> "",
              entries |-> [j \in 1..Len(sorted) |->
                             [name |-> sorted[j],
                              isDir |-> fs[Append(r.path, sorted[j])].kind = "dir"]]]

(***************************************************************************)
(* A run's view of the filesystem while one item is processed: the tree,   *)
(* the number n of os calls it has come to and the number of them it made. *)
(* One call (failAt, 0 for none) fails with an injected I/O error: without *)
(* effect, or, for a call made of several system calls, after the part of  *)
(* its work that how names (gone: the entries os.RemoveAll had removed;    *)
(* bytes: the bytes io.Copy had written; dirs: the components down to      *)
(* which os.MkdirAll had made the directories).  A process killed from     *)
(* outside (killAt, 0 for never) makes no call from call killAt on: it is  *)
(* killed before that call (mute: and before the line it prints ahead of   *)
(* that call), or while the call is under way, after the part how names.   *)
(* blocked: the process is inside a call that does not return.  parts: in  *)
(* a run where no call fails and nothing is killed, the calls that can be  *)
(* cut short, each with the parts it can have done.                        *)
(***************************************************************************)
NoHow == [gone |-> {}, bytes |-> 0, dirs |-> 0, mute |-> FALSE]
Partly(how) == how.gone # {} \/ how.bytes > 0 \/ how.dirs > 0
World(fs, failAt, how) ==
  [fs |-> fs, n |-> 0, made |-> 0, failAt |-> failAt, killAt |-> 0, how |-> how,
   blocked |-> FALSE, parts |-> {}]
KillWorld(fs, killAt, how) ==
  [fs |-> fs, n |-> 0, made |-> 0, failAt |-> 0, killAt |-> killAt, how |-> how,
   blocked |-> FALSE, parts |-> {}]
Hit(w) == w.n + 1 = w.failAt
\* the process makes no further call: it was killed, or it is inside a call
\* that does not return
Killed(w) == w.blocked \/ (w.killAt > 0 /\ w.n + 1 >= w.killAt)
\* the error of a call: the process makes no call once killed, the call
\* picked fails with an I/O error, any other call does what it does
Outcome(w, e) == IF Killed(w) THEN "killed" ELSE IF Hit(w) THEN "EIO" ELSE e
\* the world after a call with error e that left the tree t
Moved(w, e, t) ==
  [w EXCEPT !.n = @ + 1, !.made = IF e = "killed" THEN @ ELSE @ + 1,
            !.blocked = @ \/ e = "blocked", !.fs = t]
Sys(w, res) ==
  LET e == Outcome(w, res.err)
  IN [err |-> e, w |-> Moved(w, e, IF e \in {"killed", "EIO", "blocked"} THEN w.fs
                                   ELSE res.fs)]
\* a call made of several system calls (note: which call, on what): killed
\* or failing while it is under way, it leaves what part of it had done
SysPartial(w, res, part, note) ==
  LET e == Outcome(w, res.err)
      cut == Partly(w.how) /\ ~w.blocked /\ w.n + 1 \in {w.killAt, w.failAt}
      noted == IF w.failAt = 0 /\ w.killAt = 0 /\ ~w.blocked
               THEN {[n |-> w.n + 1, fs |-> w.fs, call |-> note[1], a |-> note[2],
                      b |-> note[3]]}
               ELSE {}
  IN [err |-> e,
      w |-> [Moved(w, e, IF cut THEN part.fs
                         ELSE IF e \in {"killed", "EIO", "blocked"} THEN w.fs
                         ELSE res.fs)
             EXCEPT !.parts = @ \cup noted]]
\* the process has returned from every call made so far
Alive(w) == ~w.blocked /\ (w.killAt = 0 \/ w.n < w.killAt)
\* a line printed or logged after the calls made so far
Say(w, line) ==
  IF Alive(w) /\ ~(w.how.mute /\ w.n + 1 = w.killAt) THEN <<line>> ELSE <<>>
\* a call that only reads
SysRead(w, res) == Outcome(w, res.err)
\* the world one call further
Tick(w) == Moved(w, Outcome(w, ""), w.fs)
\* the world after a reading call with error e
After(w, e) == Moved(w, e, w.fs)

\* no call fails, nothing is killed
NoFault == [at |-> 0, how |-> NoHow]
\* the parts a call that can be cut short can have done
PartsOf(x) ==
  IF x.call = "RemoveAll"
  THEN {[NoHow EXCEPT !.gone = R] : R \in PartlyRemoved(x.fs, x.a) \ {{}}}
  ELSE IF x.call = "MkdirAll"
  THEN {[NoHow EXCEPT !.dirs = k] : k \in PartlyMade(x.fs, x.a)}
  ELSE {[NoHow EXCEPT !.bytes = k] : k \in PartlyCopied(x.fs, x.a, x.b)}
CutShort(c) == UNION {{[at |-> x.n, how |-> h] : h \in PartsOf(x)} : x \in c.w.parts}
\* the failures a run of processPath can meet, given the run c in which no
\* call fails: none, any call it makes without effect, and a call that can
\* be cut short also after a part of its work
FaultsOf(c) ==
  {NoFault} \cup {[at |-> k, how |-> NoHow] : k \in 1..c.w.made}
  \cup CutShort(c)
\* the ways a kill can fall in that run: before any call it makes or after
\* the last one, before or after the line printed there, and inside a call
\* that can be cut short
KillsOf(c) ==
  {[at |-> k, how |-> [NoHow EXCEPT !.mute = m]] : k \in 1..(c.w.made + 1), m \in BOOLEAN}
  \cup CutShort(c)
\* what a failure or a kill is named by
Names == {SortedNames[j] : j \in 1..Len(SortedNames)}
Choices ==
  [at : Nat, how : [gone : SUBSET Seq(Names), bytes : Nat, dirs : Nat, mute : BOOLEAN]]

\* copyFile copies a single file from src to dst.
copyFile(w, src, dst) ==
  LET Copy(input, output, c) ==
        IF c.err # "" THEN c
        ELSE SysPartial(c.w, IoCopy(c.w.fs, output.path, input.path),
                        IoCopyPartly(c.w.fs, output.path, input.path, c.w.how.bytes),
                        <<"io.Copy", output.path, input.path>>)
      Make(input, m) ==
        IF m.err # "" THEN m
        ELSE Copy(input, Create(m.w.fs, dst), Sys(m.w, Create(m.w.fs, dst)))
      Opened(input, e1, w1) ==
        IF e1 # "" THEN [err |-> e1, w |-> After(w, e1)]
        ELSE Make(input, SysPartial(w1, MkdirAll(w1.fs, Parent(dst)),
                                    MkdirAllPartly(w1.fs, Parent(dst), w1.how.dirs),
                                    <<"MkdirAll", Parent(dst), <<>>>>))
  IN Opened(Open(w.fs, src), SysRead(w, Open(w.fs, src)), Tick(w))

\* copyDir recursively copies a directory tree.
RECURSIVE copyDir(_, _, _)
RECURSIVE copyEntries(_, _, _, _)
copyEntries(w, src, dst, entries) ==
  LET Rest(r) ==
        IF r.err # "" THEN r
        ELSE copyEntries(r.w, src, dst, Tail(entries))
      One(entry, srcPath, dstPath) ==
        IF entry.isDir THEN Rest(copyDir(w, srcPath, dstPath))
        ELSE Rest(copyFile(w, srcPath, dstPath))
  IN IF entries = <<>> THEN [err |-> "", w |-> w]
     ELSE One(Head(entries), Join(src, <<Head(entries).name>>),
              Join(dst, <<Head(entries).name>>))

copyDir(w, src, dst) ==
  LET Listed(rd, e3, w2, w3) ==
        IF e3 # "" THEN [err |-> e3, w |-> After(w2, e3)]
        ELSE copyEntries(w3, src, dst, rd.entries)
      Made(m) ==
        IF m.err # "" THEN m
        ELSE Listed(ReadDir(m.w.fs, src), SysRead(m.w, ReadDir(m.w.fs, src)), m.w,
                    Tick(m.w))
      Statted(e1, w1) ==
        IF e1 # "" THEN [err |-> e1, w |-> w1]
        ELSE Made(SysPartial(w1, MkdirAll(w1.fs, dst),
                             MkdirAllPartly(w1.fs, dst, w1.how.dirs),
                             <<"MkdirAll", dst, <<>>>>))
  IN Statted(SysRead(w, Stat(w.fs, src)), Tick(w))

(***************************************************************************)
(* processPath handles backing up a file or directory and ensuring the     *)
(* symlink exists.  The result is the world after it, the calls it made    *)
(* (with their errors) and the lines it printed or logged.                 *)
(***************************************************************************)
Call(name, err) == [call |-> name, err |-> err]

\* lines 96-110 and 111-126: copy, report, remove the original
copyAndRemove(cp, rm, what, copyCall, removeCall, isSync) ==
  [w |-> rm.w,
   calls |-> <<Call(copyCall, cp.err), Call(removeCall, rm.err)>>,
   msgs |-> Say(cp.w, IF cp.err # "" THEN "Error copying " \o what
                      ELSE IF isSync THEN "Updated " \o what
                      ELSE "Copied " \o what)
            \o (IF rm.err # "" THEN Say(rm.w, "Error removing original " \o what)
                ELSE <<>>)]

\* backupStep where a sync run keeps the original after copying it
backupStepSyncKeeps(w, item, sourcePath, destPath, isSync) ==
  LET First(r, e0) == [r EXCEPT !.calls = <<Call("Lstat", e0)>> \o @]
      Kept(cp, what, copyCall) ==
        [w |-> cp.w, calls |-> <<Call(copyCall, cp.err)>>,
         msgs |-> Say(cp.w, IF cp.err # "" THEN "Error copying " \o what
                            ELSE "Updated " \o what)]
      DirCase(cp) ==
        IF isSync THEN Kept(cp, "directory", "copyDir")
        ELSE copyAndRemove(cp, Sys(cp.w, RemoveAll(cp.w.fs, sourcePath)),
                           "directory", "copyDir", "RemoveAll", isSync)
      FileCase(cp) ==
        IF isSync THEN Kept(cp, "file", "copyFile")
        ELSE copyAndRemove(cp, Sys(cp.w, Remove(cp.w.fs, sourcePath)),
                           "file", "copyFile", "Remove", isSync)
      Found(fi, e0, w0, dir, file) ==
        IF e0 = ""
        THEN IF fi.kind = "link"
             THEN [w |-> w0, calls |-> <<>>, msgs |-> Say(w0, "Skipping backup")]
             ELSE IF fi.kind = "dir"
             THEN DirCase(dir)
             ELSE FileCase(file)
        ELSE IF ~IsNotExist(e0)
        THEN [w |-> w0, calls |-> <<>>, msgs |-> Say(w0, "Error accessing")]
        ELSE [w |-> w0, calls |-> <<>>, msgs |-> Say(w0, "does not exist in home")]
  IN First(Found(Lstat(w.fs, sourcePath), SysRead(w, Lstat(w.fs, sourcePath)), Tick(w),
                 copyDir(Tick(w), sourcePath, destPath),
                 copyFile(Tick(w), sourcePath, destPath)),
           SysRead(w, Lstat(w.fs, sourcePath)))

\* lines 92-131: the backup step
backupStep(w, item, sourcePath, destPath, isSync) ==
  LET First(r, e0) == [r EXCEPT !.calls = <<Call("Lstat", e0)>> \o @]
      DirCase(cp) ==
        copyAndRemove(cp, SysPartial(cp.w, RemoveAll(cp.w.fs, sourcePath),
                                     RemoveAllPartly(cp.w.fs, sourcePath, cp.w.how.gone),
                                     <<"RemoveAll", sourcePath, <<>>>>),
                      "directory", "copyDir", "RemoveAll", isSync)
      FileCase(cp) ==
        copyAndRemove(cp, Sys(cp.w, Remove(cp.w.fs, sourcePath)),
                      "file", "copyFile", "Remove", isSync)
      Found(fi, e0, w0, dir, file) ==
        IF e0 = ""
        THEN IF fi.kind = "link"
             THEN [w |-> w0, calls |-> <<>>, msgs |-> Say(w0, "Skipping backup")]
             ELSE IF fi.kind = "dir"
             THEN DirCase(dir)
             ELSE FileCase(file)
        ELSE IF ~IsNotExist(e0)
        THEN [w |-> w0, calls |-> <<>>, msgs |-> Say(w0, "Error accessing")]
        ELSE [w |-> w0, calls |-> <<>>, msgs |-> Say(w0, "does not exist in home")]
  IN First(Found(Lstat(w.fs, sourcePath), SysRead(w, Lstat(w.fs, sourcePath)), Tick(w),
                 copyDir(Tick(w), sourcePath, destPath),
                 copyFile(Tick(w), sourcePath, destPath)),
           SysRead(w, Lstat(w.fs, sourcePath)))

\* symlinkStep without the os.Stat(destPath) check
symlinkStepNoBackupCheck(w, item, sourcePath, destPath) ==
  LET Linked(sl) ==
        [w |-> sl.w,
         calls |-> <<Call("Symlink", sl.err)>>,
         msgs |-> Say(sl.w, IF sl.err # "" THEN "Error creating symlink"
                           ELSE "Created symlink")]
      Gone(e1, w1) ==
        IF IsNotExist(e1) THEN Linked(Sys(w1, Symlink(w1.fs, destPath, sourcePath)))
        ELSE [w |-> w1, calls |-> <<>>, msgs |-> <<>>]
  IN Gone(SysRead(w, Lstat(w.fs, sourcePath)), Tick(w))

\* symlinkStep as ln -sf: no re-check of the source, whatever is at the source
\* path is removed and the symlink put in its place
symlinkStepReplaces(w, item, sourcePath, destPath) ==
  LET Linked(sl) ==
        [w |-> sl.w,
         calls |-> <<Call("Symlink", sl.err)>>,
         msgs |-> Say(sl.w, IF sl.err # "" THEN "Error creating symlink"
                           ELSE "Created symlink")]
      Cleared(rm) == Linked(Sys(rm.w, Symlink(rm.w.fs, destPath, sourcePath)))
      Backup(e2, w2) ==
        IF e2 = "" THEN Cleared(Sys(w2, Remove(w2.fs, sourcePath)))
        ELSE [w |-> w2, calls |-> <<>>, msgs |-> Say(w2, "No backup found")]
  IN Backup(SysRead(w, Stat(w.fs, destPath)), Tick(w))

\* lines 133-144: create the symlink if the source no longer exists
symlinkStep(w, item, sourcePath, destPath) ==
  LET Linked(sl) ==
        [w |-> sl.w,
         calls |-> <<Call("Symlink", sl.err)>>,
         msgs |-> Say(sl.w, IF sl.err # "" THEN "Error creating symlink"
                           ELSE "Created symlink")]
      Backup(e2, w2) ==
        IF e2 = "" THEN Linked(Sys(w2, Symlink(w2.fs, destPath, sourcePath)))
        ELSE [w |-> w2, calls |-> <<>>, msgs |-> Say(w2, "No backup found")]
      Gone(e1, w1) ==
        IF IsNotExist(e1) THEN Backup(SysRead(w1, Stat(w1.fs, destPath)), Tick(w1))
        ELSE [w |-> w1, calls |-> <<>>, msgs |-> <<>>]
  IN Gone(SysRead(w, Lstat(w.fs, sourcePath)), Tick(w))

processPath(w, item, homeDir, repoDir, isSync) ==
  LET Both(b, s) == [w |-> s.w, calls |-> b.calls \o s.calls, msgs |-> b.msgs \o s.msgs]
      Then(b) == Both(b, symlinkStep(b.w, item, Join(homeDir, item), Join(repoDir, item)))
  IN Then(backupStep(w, item, Join(homeDir, item), Join(repoDir, item), isSync))

(***************************************************************************)
(* The program and its environment.                                        *)
(***************************************************************************)
VARIABLES
  fs,         \* the filesystem
  configFile, \* what <cwd>/config.json holds when the first invocation starts:
              \* [status, dotfiles]; the file itself is a node of fs
  args,       \* os.Args[1:] of the current invocation
  pc,         \* where the current invocation is
  items,      \* cfg.Dotfiles once loaded
  idx,        \* the next item of the range loop (1-based)
  exitCode,   \* the exit status of the invocation, -1 while it runs
  output,     \* what main printed or logged on its way out
  log,        \* per item processed in this run: [item, calls, msgs]
  git,        \* the git commands run in this run: [args, dir, err]
  run,        \* the number of the current invocation
  faults,     \* injected failures so far
  fs0,        \* the filesystem when the current invocation started
  history,    \* per finished invocation: [args, exitCode]
  environ,    \* $HOME of the invocations: a path, <<>> when unset or empty
  killed      \* per killed invocation: the item under way, the filesystem
              \* before its processPath and the lines it had printed for the
              \* item: [item, fs, msgs]

vars == <<fs, configFile, args, pc, items, idx, exitCode, output, log, git,
          run, faults, fs0, history, environ, killed>>

\* the tracked items of the model: relative paths under the home directory
Items == {<<"a">>, <<"d">>, <<"d", "f">>}
\* an item two directories down, alone in its list
DeepItem == <<"d", "s", "a">>

RECURSIVE SeqsUpTo(_, _)
SeqsUpTo(S, n) ==
  IF n = 0 THEN {<<>>}
  ELSE LET shorter == SeqsUpTo(S, n - 1)
       IN shorter \cup {Append(q, x) : q \in {q \in shorter : Len(q) = n - 1}, x \in S}

\* config.json: missing, not JSON, or {"dotfiles": [...]}
ConfigChoices ==
  {[status |-> "missing", dotfiles |-> <<>>], [status |-> "malformed", dotfiles |-> <<>>]}
  \cup {[status |-> "ok", dotfiles |-> l] : l \in SeqsUpTo(Items, MaxItems)}
  \cup {[status |-> "ok", dotfiles |-> <<DeepItem>>]}

ArgChoices == {<<>>, <<"init">>, <<"sync">>, <<"bogus">>}

\* the trees a run can start from
Nothing == [q \in {} |-> Dir]
HomeA ==
  { Nothing,
    <<"h", "a">> :> File(<<1, 2>>),
    <<"h", "a">> :> Link(<<"r", "dotfiles", "a">>),
    <<"h", "a">> :> Link(<<"x">>) }
HomeD ==
  { Nothing,
    (<<"h", "d">> :> Dir) @@ (<<"h", "d", "f">> :> File(<<4>>))
       @@ (<<"h", "d", "s">> :> Dir) @@ (<<"h", "d", "s", "a">> :> File(<<6>>)),
    (<<"h", "d">> :> Dir) @@ (<<"h", "d", "f">> :> File(<<4>>))
       @@ (<<"h", "d", "k">> :> Link(<<"gone">>))
       @@ (<<"h", "d", "s">> :> Dir) @@ (<<"h", "d", "s", "a">> :> File(<<6>>)),
    <<"h", "d">> :> Link(<<"r", "dotfiles", "d">>) }
RepoA == { Nothing, <<"r", "dotfiles", "a">> :> File(<<3>>) }
RepoD ==
  { Nothing,
    (<<"r", "dotfiles", "d">> :> Dir) @@ (<<"r", "dotfiles", "d", "f">> :> File(<<5>>)),
    <<"r", "dotfiles", "d">> :> File(<<7>>) }
Repo ==
  { Nothing, <<"r", "dotfiles">> :> File(<<8>>) }
  \cup { (<<"r", "dotfiles">> :> Dir) @@ ra @@ rd : ra \in RepoA, rd \in RepoD }
BaseTree == (<<"h">> :> Dir) @@ (<<"r">> :> Dir) @@ (<<"x">> :> File(<<9>>))
Trees == { BaseTree @@ ha @@ hd @@ rp : ha \in HomeA, hd \in HomeD, rp \in Repo }

\* the tree with config.json in the working directory, unless it is missing
WithConfig(t, file) ==
  IF file.status = "missing" THEN t
  ELSE t @@ (Append(Resolve(t, Getwd, TRUE).path, ConfigName) :> File(<<0>>))

Init ==
  /\ configFile \in ConfigChoices
  /\ fs \in {WithConfig(t, configFile) : t \in Trees}
  /\ args \in ArgChoices
  /\ pc = "start"
  /\ items = <<>>
  /\ idx = 1
  /\ exitCode = -1
  /\ output = "none"
  /\ log = <<>>
  /\ git = <<>>
  /\ run = 1
  /\ faults = 0
  /\ fs0 = fs
  /\ history = <<>>
  /\ environ \in {UserHomeDir, <<>>}
  /\ killed = <<>>

Exit(code, msg) ==
  /\ pc' = "exit"
  /\ exitCode' = code
  /\ output' = msg

\* main, lines 216-219: no subcommand
Usage ==
  /\ pc = "start"
  /\ Len(args) < 1
  /\ Exit(1, "Usage: gotfiles <init|sync>")
  /\ UNCHANGED <<fs, configFile, args, items, idx, log, git, run, faults, fs0, history, environ, killed>>

\* loadConfig: ioutil.ReadFile of the file at configPath, then json.Unmarshal
\* of what it holds
loadConfig(t, configPath, file) ==
  LET o == Open(t, configPath)
  IN IF o.err # "" THEN [err |-> o.err, cfg |-> <<>>]
     ELSE IF t[o.path].kind = "dir" THEN [err |-> "EISDIR", cfg |-> <<>>]
     ELSE IF file.status = "malformed" THEN [err |-> "invalid JSON", cfg |-> <<>>]
     ELSE [err |-> "", cfg |-> file.dotfiles]

\* main, lines 221-229
LoadConfig ==
  /\ pc = "start"
  /\ Len(args) >= 1
  /\ LET c == loadConfig(fs, Append(Getwd, ConfigName), configFile)
     IN IF GetwdErr(fs) # ""
        THEN /\ Exit(1, "fatal: getwd")
             /\ UNCHANGED items
        ELSE IF c.err = "blocked"
        THEN /\ pc' = "blocked"
             /\ UNCHANGED <<items, exitCode, output>>
        ELSE IF c.err # ""
        THEN /\ Exit(1, "Error loading config file")
             /\ UNCHANGED items
        ELSE /\ pc' = "dispatch"
             /\ items' = c.cfg
             /\ UNCHANGED <<exitCode, output>>
  /\ UNCHANGED <<fs, configFile, args, idx, log, git, run, faults, fs0, history, environ, killed>>

\* the default case without os.Exit(1): main returns, exit status 0
UnknownCommandReturns ==
  /\ pc = "dispatch"
  /\ args[1] \notin {"init", "sync"}
  /\ Exit(0, "Unknown command")
  /\ UNCHANGED <<fs, configFile, args, items, idx, log, git, run, faults, fs0, history, environ, killed>>

\* main, lines 240-242: the default case of the switch
UnknownCommand ==
  /\ pc = "dispatch"
  /\ args[1] \notin {"init", "sync"}
  /\ Exit(1, "Unknown command")
  /\ UNCHANGED <<fs, configFile, args, items, idx, log, git, run, faults, fs0, history, environ, killed>>

dotfilesRepoDir == Join(Getwd, <<"dotfiles">>)

\* initCmd, lines 156-167, and main's log.Fatal(err)
InitStart ==
  /\ pc = "dispatch"
  /\ args[1] = "init"
  /\ LET m == MkdirAll(fs, dotfilesRepoDir)
     IN IF UserHomeDirOf(environ).err # ""
        THEN Exit(1, "fatal: $HOME is not defined") /\ UNCHANGED fs
        ELSE IF GetwdErr(fs) # ""
        THEN Exit(1, "fatal: getwd") /\ UNCHANGED fs
        ELSE /\ fs' = m.fs
             /\ IF m.err # ""
                THEN Exit(1, "fatal: mkdir dotfiles")
                ELSE pc' = "loop" /\ UNCHANGED <<exitCode, output>>
  /\ idx' = 1
  /\ UNCHANGED <<configFile, args, items, log, git, run, faults, fs0, history, environ, killed>>

\* syncCmd with initCmd's os.MkdirAll in place of the os.Stat check
SyncStartCreates ==
  /\ pc = "dispatch"
  /\ args[1] = "sync"
  /\ LET m == MkdirAll(fs, dotfilesRepoDir)
     IN IF UserHomeDirOf(environ).err # ""
        THEN Exit(1, "fatal: $HOME is not defined") /\ UNCHANGED fs
        ELSE IF GetwdErr(fs) # ""
        THEN Exit(1, "fatal: getwd") /\ UNCHANGED fs
        ELSE /\ fs' = m.fs
             /\ IF m.err # ""
                THEN Exit(1, "fatal: mkdir dotfiles")
                ELSE pc' = "loop" /\ UNCHANGED <<exitCode, output>>
  /\ idx' = 1
  /\ UNCHANGED <<configFile, args, items, log, git, run, faults, fs0, history, environ, killed>>

\* syncCmd, lines 186-197, and main's log.Fatal(err)
SyncStart ==
  /\ pc = "dispatch"
  /\ args[1] = "sync"
  /\ IF UserHomeDirOf(environ).err # ""
     THEN Exit(1, "fatal: $HOME is not defined")
     ELSE IF GetwdErr(fs) # ""
     THEN Exit(1, "fatal: getwd")
     ELSE IF IsNotExist(Stat(fs, dotfilesRepoDir).err)
     THEN Exit(1, "fatal: dotfiles repository directory does not exist")
     ELSE pc' = "loop" /\ UNCHANGED <<exitCode, output>>
  /\ idx' = 1
  /\ UNCHANGED <<fs, configFile, args, items, log, git, run, faults, fs0, history, environ, killed>>

\* the range loop leaving at the first item with a failed call
ProcessItemStopOnError ==
  /\ pc = "loop"
  /\ idx <= Len(items)
  /\ \E step \in {[x \in Choices |->
                      processPath(World(fs, x.at, x.how), items[idx],
                                  UserHomeDirOf(environ).dir, dotfilesRepoDir,
                                  args[1] = "sync")]} :
       \E x \in {x \in FaultsOf(step[NoFault]) : x.at > 0 => faults < MaxFaults} :
         \E r \in {step[x]} :
           /\ fs' = r.w.fs
           /\ log' = Append(log, [item |-> items[idx], calls |-> r.calls, msgs |-> r.msgs])
           /\ faults' = IF x.at > 0 THEN faults + 1 ELSE faults
           /\ idx' = IF \E j \in 1..Len(r.calls) : r.calls[j].err # ""
                     THEN Len(items) + 1 ELSE idx + 1
  /\ UNCHANGED <<configFile, args, pc, items, exitCode, output, git, run, fs0, history, environ, killed>>

\* a call the process made: one after a call that does not return was not
WasMade(c) == c.err # "killed"

\* one iteration of the range loop, lines 169-171 and 199-201, with none or
\* one of its os calls failing; an item with a call that does not return is
\* the last thing the run does
ProcessItem ==
  /\ pc = "loop"
  /\ idx <= Len(items)
  /\ \E step \in {[x \in Choices |->
                      processPath(World(fs, x.at, x.how), items[idx],
                                  UserHomeDirOf(environ).dir, dotfilesRepoDir,
                                  args[1] = "sync")]} :
       \E x \in {x \in FaultsOf(step[NoFault]) : x.at > 0 => faults < MaxFaults} :
         \E r \in {step[x]} :
           /\ fs' = r.w.fs
           /\ faults' = IF x.at > 0 THEN faults + 1 ELSE faults
           /\ log' = Append(log, [item |-> items[idx],
                                   calls |-> SelectSeq(r.calls, WasMade),
                                   msgs |-> r.msgs])
           /\ IF r.w.blocked
              THEN pc' = "blocked" /\ UNCHANGED idx
              ELSE idx' = idx + 1 /\ pc' = pc
  /\ UNCHANGED <<configFile, args, items, exitCode, output, git, run, fs0, history, environ, killed>>

\* cmd.Run with cmd.Dir = dir: the child changes to dir before it runs git, and
\* is not started when dir is no directory; else git succeeds or fails
GitOutcomes(t, dir) ==
  LET st == Stat(t, dir)
  IN IF st.err # "" THEN {"fork/exec: " \o st.err}
     ELSE IF st.kind # "dir" THEN {"fork/exec: ENOTDIR"}
     ELSE {"", "exit status 1"}

\* a failed git command ending the command sequence
RunGitAbort(gitArgs, next) ==
  /\ \E err \in GitOutcomes(fs, Getwd) :
       /\ err = "exit status 1" => faults < MaxFaults
       /\ git' = Append(git, [args |-> gitArgs, dir |-> Getwd, err |-> err])
       /\ faults' = IF err = "exit status 1" THEN faults + 1 ELSE faults
       /\ pc' = IF err # "" THEN "exit" ELSE next
  /\ UNCHANGED <<fs, configFile, args, items, idx, log, run, fs0, history, environ, killed>>

\* runGitCommand: the command either succeeds or fails
RunGit(gitArgs, next) ==
  /\ \E err \in GitOutcomes(fs, Getwd) :
       /\ err = "exit status 1" => faults < MaxFaults
       /\ git' = Append(git, [args |-> gitArgs, dir |-> Getwd, err |-> err])
       /\ faults' = IF err = "exit status 1" THEN faults + 1 ELSE faults
  /\ pc' = next
  /\ UNCHANGED <<fs, configFile, args, items, idx, log, run, fs0, history, environ, killed>>

\* the git command run at each place, lines 173-181 and 203-211
GitArgs(at, command) ==
  IF at = "loop" THEN <<"add", ".">>
  ELSE IF at = "commit"
  THEN <<"commit", "-m", IF command = "sync" THEN "Sync dotfiles changes"
                         ELSE "Update dotfiles backup">>
  ELSE <<"push">>

\* lines 173-175 and 203-205
GitAdd ==
  /\ pc = "loop"
  /\ idx > Len(items)
  /\ RunGit(GitArgs(pc, args[1]), "commit")
  /\ UNCHANGED <<exitCode, output>>

\* lines 176-178 and 206-208
GitCommit ==
  /\ pc = "commit"
  /\ RunGit(GitArgs(pc, args[1]), "push")
  /\ UNCHANGED <<exitCode, output>>

\* lines 179-182 and 209-212: push, return nil, and main returns
GitPush ==
  /\ pc = "push"
  /\ RunGit(GitArgs(pc, args[1]), "exit")
  /\ exitCode' = 0
  /\ UNCHANGED output

\* the user runs the program again, on the same config.json
Invoke ==
  /\ pc = "exit"
  /\ run < MaxRuns
  /\ \E a \in ArgChoices : args' = a
  /\ history' = Append(history, [args |-> args, exitCode |-> exitCode])
  /\ run' = run + 1
  /\ pc' = "start"
  /\ items' = <<>>
  /\ idx' = 1
  /\ exitCode' = -1
  /\ output' = "none"
  /\ log' = <<>>
  /\ git' = <<>>
  /\ fs0' = fs
  /\ UNCHANGED <<fs, configFile, faults, environ, killed>>

Next ==
  \/ Usage
  \/ LoadConfig
  \/ UnknownCommand
  \/ InitStart
  \/ SyncStart
  \/ ProcessItem
  \/ GitAdd
  \/ GitCommit
  \/ GitPush
  \/ Invoke

Spec == Init /\ [][Next]_vars

(***************************************************************************)
(* The process is killed from outside.  While an item is processed: before *)
(* one of processPath's os calls or after the last one, or while io.Copy,  *)
(* os.MkdirAll or os.RemoveAll is under way.  The calls made so far have   *)
(* had their effect, nothing more happens, and the exit status is that of  *)
(* SIGKILL.  Only runs that can be followed by another one are killed.     *)
(***************************************************************************)
Crash ==
  /\ pc = "loop"
  /\ idx <= Len(items)
  /\ run < MaxRuns
  /\ \E step \in {[x \in Choices |->
                      processPath(KillWorld(fs, x.at, x.how), items[idx],
                                  UserHomeDirOf(environ).dir, dotfilesRepoDir,
                                  args[1] = "sync")]} :
       \E x \in KillsOf(step[NoFault]) :
         \E r \in {step[x]} :
           /\ fs' = r.w.fs
           /\ killed' = Append(killed, [item |-> items[idx], fs |-> fs,
                                        msgs |-> r.msgs])
  /\ Exit(137, "killed")
  /\ UNCHANGED <<configFile, args, items, idx, log, git, run, faults, fs0, history,
                 environ>>

\* The process is killed elsewhere in main: before config.json is read, before
\* initCmd or syncCmd starts, or at a git command, before it is started or
\* while it runs (cmd.Run does not return).
CrashOutside ==
  /\ pc \in {"start", "dispatch", "loop", "commit", "push"}
  /\ pc = "loop" => idx > Len(items)
  /\ run < MaxRuns
  /\ \E started \in BOOLEAN :
       git' = IF started /\ pc \in {"loop", "commit", "push"}
              THEN Append(git, [args |-> GitArgs(pc, args[1]), dir |-> Getwd,
                                err |-> "killed"])
              ELSE git
  /\ Exit(137, "killed")
  /\ UNCHANGED <<fs, configFile, args, items, idx, log, run, faults, fs0, history,
                 environ, killed>>

NextCrash == Next \/ Crash \/ CrashOutside

\* The behaviours with a kill start in an init or sync run with a config.json
\* that loads, and no os call or git command fails in them: the budget of
\* injected failures is used up from the start.
InitCrash ==
  /\ configFile \in {c \in ConfigChoices : c.status = "ok"}
  /\ fs \in {WithConfig(t, configFile) : t \in Trees}
  /\ args \in {<<"init">>, <<"sync">>}
  /\ pc = "start"
  /\ items = <<>>
  /\ idx = 1
  /\ exitCode = -1
  /\ output = "none"
  /\ log = <<>>
  /\ git = <<>>
  /\ run = 1
  /\ faults = MaxFaults
  /\ fs0 = fs
  /\ history = <<>>
  /\ environ = UserHomeDir
  /\ killed = <<>>

SpecCrash == InitCrash /\ [][NextCrash]_vars

(***************************************************************************)
(* The working directory can lie inside a tracked directory                *)
(* of the home directory: here <cwd> is a symlink to ~/d (os.Getwd gives   *)
(* $PWD), so <cwd>/dotfiles is ~/d/dotfiles and copyDir(~/d, dotfiles/d)   *)
(* copies a directory into itself.                                         *)
(***************************************************************************)
InsideHome ==
  { Nothing, <<"h", "d", "dotfiles">> :> Dir,
    (<<"h", "d", "dotfiles">> :> Dir) @@ (<<"h", "d", "dotfiles", "d">> :> Dir) }
\* a named pipe as a tracked file, or inside a tracked directory
PipeTrees ==
  { BaseTree @@ (<<"h", "a">> :> Fifo),
    BaseTree @@ (<<"h", "d">> :> Dir) @@ (<<"h", "d", "f">> :> File(<<4>>))
      @@ (<<"h", "d", "p">> :> Fifo) }
NestedTrees ==
  { (<<"h">> :> Dir) @@ (<<"h", "d">> :> Dir) @@ (<<"h", "d", "f">> :> File(<<4>>))
      @@ (<<"r">> :> Link(<<"h", "d">>)) @@ (<<"x">> :> File(<<9>>)) @@ ha @@ in
    : ha \in HomeA, in \in InsideHome }

InitNested ==
  /\ configFile \in ConfigChoices
  /\ fs \in {WithConfig(t, configFile) : t \in Trees \cup NestedTrees \cup PipeTrees}
  /\ args \in ArgChoices
  /\ pc = "start"
  /\ items = <<>>
  /\ idx = 1
  /\ exitCode = -1
  /\ output = "none"
  /\ log = <<>>
  /\ git = <<>>
  /\ run = 1
  /\ faults = 0
  /\ fs0 = fs
  /\ history = <<>>
  /\ environ \in {UserHomeDir, <<>>}
  /\ killed = <<>>

SpecNested == InitNested /\ [][Next]_vars

(***************************************************************************)
(* What the claims speak of.                                               *)
(***************************************************************************)
SourcePath(item) == Join(UserHomeDir, item)
DestPath(item) == Join(dotfilesRepoDir, item)
NoNode == [kind |-> "none", data |-> <<>>, target |-> <<>>]
\* the entry at path p of tree t (the last component not followed)
NodeAt(t, p) ==
  LET At(r) == IF r.err = "" THEN t[r.path] ELSE NoNode
  IN At(Walk(t, <<>>, p, FALSE, MaxHops))
\* the canonical place of path p in tree t
PlaceOf(t, p) ==
  LET At(r) == r.path
  IN At(Walk(t, <<>>, p, FALSE, MaxHops))
\* the invocation ran to the end of initCmd or syncCmd
RanToEnd == pc = "exit" /\ exitCode = 0
\* the steps of processPath that change the filesystem
Mutating == {"copyFile", "copyDir", "Remove", "RemoveAll", "Symlink"}
CallsOf(entry) == {entry.calls[j].call : j \in 1..Len(entry.calls)}

(***************************************************************************)
(* C1.  For every tracked item whose home source is a regular file and     *)
(* which has no repository copy, after one init run the source path is a   *)
(* symlink to dotfiles/<item> and dotfiles/<item> holds the original       *)
(* bytes.  Stated for runs without any injected failure.                   *)
(***************************************************************************)
C1_InitMovesRegularFile ==
  (RanToEnd /\ args = <<"init">> /\ faults = 0) =>
    \A i \in 1..Len(items) :
      (/\ NodeAt(fs0, SourcePath(items[i])).kind = "file"
       /\ NodeAt(fs0, DestPath(items[i])).kind = "none")
      => /\ NodeAt(fs, SourcePath(items[i])) = Link(DestPath(items[i]))
         /\ NodeAt(fs, DestPath(items[i])) = NodeAt(fs0, SourcePath(items[i]))

(***************************************************************************)
(* C3.  For every tracked item whose home source is absent and whose       *)
(* repository copy exists, after a sync run the source path is a symlink   *)
(* to the repository copy, also when the item's parent directories do not  *)
(* exist in home.  Stated for runs without any injected failure.           *)
(***************************************************************************)
C3_SyncLinksAbsentSource ==
  (RanToEnd /\ args = <<"sync">> /\ faults = 0) =>
    \A i \in 1..Len(items) :
      (/\ IsNotExist(Lstat(fs0, SourcePath(items[i])).err)
       /\ Stat(fs0, DestPath(items[i])).err = "")
      => NodeAt(fs, SourcePath(items[i])) = Link(DestPath(items[i]))

(***************************************************************************)
(* C4.  Running init twice is idempotent: the second run performs no copy  *)
(* and no delete and leaves the filesystem as the first run left it.       *)
(* Stated for two complete init runs without any injected failure.         *)
(***************************************************************************)
C4_SecondInitChangesNothing ==
  (/\ RanToEnd /\ args = <<"init">> /\ faults = 0
   /\ history = <<[args |-> <<"init">>, exitCode |-> 0]>>)
  => /\ fs = fs0
     /\ \A i \in 1..Len(log) :
          CallsOf(log[i]) \cap {"copyFile", "copyDir", "Remove", "RemoveAll"} = {}

(***************************************************************************)
(* C5.  For every tracked item whose home source is a directory, after a   *)
(* run the repository location holds the full subtree of the original      *)
(* (every nested directory, every file with its bytes, every other entry)  *)
(* and the original tree is no longer at the source path.  Stated for runs *)
(* without any injected failure that start with an empty dotfiles          *)
(* directory.                                                              *)
(***************************************************************************)
C5_DirectoryFullyCopied ==
  (RanToEnd /\ faults = 0 /\ ReadDir(fs0, dotfilesRepoDir) = [err |-> "", entries |-> <<>>]) =>
    \A i \in 1..Len(items) :
      NodeAt(fs0, SourcePath(items[i])).kind = "dir" =>
        /\ NodeAt(fs, SourcePath(items[i])).kind # "dir"
        /\ \A q \in DOMAIN fs0 :
             IsPrefix(PlaceOf(fs0, SourcePath(items[i])), q) =>
               NodeAt(fs, DestPath(items[i])
                          \o SubSeq(q, Len(PlaceOf(fs0, SourcePath(items[i]))) + 1, Len(q)))
                 = fs0[q]

(***************************************************************************)
(* C2.  When processPath finds a symlink at an item's source path          *)
(* (whatever it points to), it makes no copy, no delete and no symlink     *)
(* call and leaves the whole filesystem as it was; and no later step of    *)
(* the run changes the home entry or the repository contents of an item    *)
(* that was skipped so: they are unchanged by the run.                     *)
(***************************************************************************)
\* processPath found a symlink at the entry's source path (line 94)
Skipped(entry) == entry.msgs # <<>> /\ Head(entry.msgs) = "Skipping backup"
\* the repository contents of an item in tree t: what is at and below its
\* repository path, by relative path
RepoOf(t, item) ==
  LET At(r) ==
        IF r.err # "" THEN {}
        ELSE {<<SubSeq(q, Len(r.path) + 1, Len(q)), t[q]>> :
                q \in {q \in DOMAIN t : IsPrefix(r.path, q)}}
  IN At(Walk(t, <<>>, DestPath(item), FALSE, MaxHops))

C2_SymlinkSourceSkipped ==
  [][/\ (/\ pc = "loop" /\ idx <= Len(items)
         /\ NodeAt(fs, SourcePath(items[idx])).kind = "link")
        => /\ fs' = fs
           /\ Len(log') = Len(log) + 1
           /\ log'[Len(log')].item = items[idx]
           /\ CallsOf(log'[Len(log')]) \cap Mutating = {}
     /\ pc # "exit" =>
          \A i \in 1..Len(log) :
            Skipped(log[i]) =>
              /\ NodeAt(fs', SourcePath(log[i].item)) = NodeAt(fs, SourcePath(log[i].item))
              /\ RepoOf(fs', log[i].item) = RepoOf(fs, log[i].item)]_vars

(***************************************************************************)
(* C6.  A sync run started when <cwd>/dotfiles does not exist returns an   *)
(* error before any item is processed: nothing is copied, deleted or       *)
(* symlinked, dotfiles is not created, no git command is run, and the      *)
(* process exits non-zero.                                                 *)
(***************************************************************************)
SyncWithoutRepo ==
  /\ args = <<"sync">>
  /\ configFile.status = "ok"
  /\ Resolve(fs0, dotfilesRepoDir, TRUE).err = "ENOENT"

\* the error syncCmd returns then: os.UserHomeDir is asked first
SyncFatal ==
  IF UserHomeDirOf(environ).err # "" THEN "fatal: $HOME is not defined"
  ELSE "fatal: dotfiles repository directory does not exist"

C6_SyncWithoutRepoFailsFast ==
  SyncWithoutRepo =>
    /\ fs = fs0
    /\ log = <<>>
    /\ git = <<>>
    /\ pc \in {"start", "dispatch", "exit"}
    /\ pc = "exit" =>
         /\ exitCode = 1
         /\ output = SyncFatal

C6_Witness == SyncWithoutRepo /\ pc = "exit" /\ Len(items) > 0

(***************************************************************************)
(* C7.  For every tracked item for which neither the home source nor the   *)
(* repository copy exists when a run starts, after the run there is still  *)
(* nothing at the source path and nothing at the repository path, and the  *)
(* items after it in the list have been processed.                         *)
(***************************************************************************)
NeitherExists(t, item) ==
  /\ NodeAt(t, SourcePath(item)).kind = "none"
  /\ NodeAt(t, DestPath(item)).kind = "none"

C7_NothingForMissingItem ==
  RanToEnd =>
    \A i \in 1..Len(items) :
      NeitherExists(fs0, items[i]) =>
        /\ NeitherExists(fs, items[i])
        /\ Len(log) = Len(items)
        /\ \A j \in i..Len(items) : log[j].item = items[j]

\* a missing item was followed by an item that was backed up and symlinked
C7_Witness ==
  /\ RanToEnd
  /\ \E i \in 1..Len(items) - 1 :
       /\ NeitherExists(fs0, items[i])
       /\ log[i].msgs = <<"does not exist in home", "No backup found">>
       /\ "Symlink" \in CallsOf(log[i + 1])

(***************************************************************************)
(* C8.  In every init or sync run that gets past its startup checks, git   *)
(* add, commit, push are each attempted exactly once, in that order, only  *)
(* after the last configured item has been processed; a failed git step    *)
(* does not stop the later ones, and the command returns success.          *)
(***************************************************************************)
GitCommands == [j \in 1..Len(git) |-> git[j].args[1]]

C8_GitStepsOnceInOrder ==
  /\ pc \in {"start", "dispatch", "loop"} => git = <<>>
  /\ pc = "commit" => GitCommands = <<"add">>
  /\ pc = "push" => GitCommands = <<"add", "commit">>
  /\ pc = "exit" => \/ exitCode = 1 /\ git = <<>> /\ log = <<>>
                    \/ exitCode = 0 /\ GitCommands = <<"add", "commit", "push">>
  /\ git # <<>> => Len(log) = Len(items) /\ idx = Len(items) + 1
  /\ \A j \in 1..Len(git) : git[j].dir = Getwd

\* git add failed, commit and push were still run, and the run succeeded
C8_Witness ==
  /\ RanToEnd
  /\ Len(git) = 3
  /\ git[1].err # ""
  /\ Len(log) > 0

(***************************************************************************)
(* C9.  In every run each configured item is processed exactly once, one   *)
(* at a time, in list order; a failed copy, delete, symlink or stat on     *)
(* item i keeps neither the items after it from being processed nor the    *)
(* git steps from running.                                                 *)
(***************************************************************************)
C9_ItemsOnceInOrder ==
  /\ Len(log) <= Len(items)
  /\ \A i \in 1..Len(log) : log[i].item = items[i]
  /\ pc = "loop" => Len(log) = idx - 1
  /\ pc \in {"commit", "push"} => Len(log) = Len(items)
  /\ (pc = "exit" /\ log # <<>>) =>
       Len(log) = Len(items) /\ Len(git) = 3 /\ exitCode = 0

\* a call failed on the first item and the second item was still processed
C9_Witness ==
  /\ RanToEnd
  /\ Len(log) = 2
  /\ \E j \in 1..Len(log[1].calls) :
       log[1].calls[j].call \in Mutating /\ log[1].calls[j].err # ""
  /\ "Symlink" \in CallsOf(log[2])

(***************************************************************************)
(* C10 as stated.  The process exits with code 1 and a usage message when  *)
(* no subcommand is given or the subcommand is unrecognized; it exits      *)
(* non-zero with a fatal log when a subcommand is given and config.json is *)
(* missing or malformed, or when sync runs without the dotfiles directory; *)
(* in each case no item is processed and no git command is run.            *)
(***************************************************************************)
UsageLine == "Usage: gotfiles <init|sync>"
NothingDone == fs = fs0 /\ log = <<>> /\ git = <<>>
Recognized == Len(args) >= 1 /\ args[1] \in {"init", "sync"}

C10_Original ==
  pc = "exit" =>
    /\ ~Recognized => exitCode = 1 /\ output = UsageLine /\ NothingDone
    /\ (Recognized /\ configFile.status # "ok") =>
         exitCode # 0 /\ output = "Error loading config file" /\ NothingDone
    /\ SyncWithoutRepo =>
         /\ exitCode # 0 /\ NothingDone
         /\ output = SyncFatal

(***************************************************************************)
(* C10 amended.  With no subcommand the process prints the usage line and  *)
(* exits with code 1.  With any subcommand and config.json missing or      *)
(* malformed it logs the config error and exits with code 1.  With an      *)
(* unrecognized subcommand and a config.json that loads it prints          *)
(* "Unknown command" (not the usage line) and exits with code 1.  A sync   *)
(* without the dotfiles directory exits with code 1 and a fatal log.  In   *)
(* each case no item is processed and no git command is run.               *)
(***************************************************************************)
C10_StartupFailures ==
  pc = "exit" =>
    /\ Len(args) < 1 => exitCode = 1 /\ output = UsageLine /\ NothingDone
    /\ (Len(args) >= 1 /\ configFile.status # "ok") =>
         exitCode = 1 /\ output = "Error loading config file" /\ NothingDone
    /\ (Len(args) >= 1 /\ ~Recognized /\ configFile.status = "ok") =>
         exitCode = 1 /\ output = "Unknown command" /\ NothingDone
    /\ SyncWithoutRepo =>
         /\ exitCode = 1 /\ NothingDone
         /\ output = SyncFatal

\* an unrecognized subcommand, with a config.json that loads, has exited
C10_Witness ==
  /\ pc = "exit"
  /\ args = <<"bogus">>
  /\ configFile.status = "ok"
  /\ Len(configFile.dotfiles) > 0
  /\ output = "Unknown command"

(***************************************************************************)
(* C11.  init and sync apply the same reconciliation.  Where the dotfiles  *)
(* directory exists, both commands enter the item loop (or, without a      *)
(* $HOME, both end with the same fatal error) and leave the                *)
(* filesystem as it is; every item step of one command makes the calls,    *)
(* with the outcomes, and reaches the filesystem that the other command's  *)
(* processPath makes and reaches from the same filesystem with the same    *)
(* failing call; the git commands of the two differ in the commit message  *)
(* only.  Step by step, so for the whole run.                              *)
(***************************************************************************)
OtherCommand == IF args[1] = "sync" THEN "init" ELSE "sync"
RepoIsDir(t) == Stat(t, dotfilesRepoDir).kind = "dir"
SameAsOther(x) ==
  LET Same(r) == fs' = r.w.fs /\ log'[Len(log')].calls = r.calls
  IN Same(processPath(World(fs, x.at, x.how), items[idx], UserHomeDir, dotfilesRepoDir,
                      OtherCommand = "sync"))
\* the step about to be taken when no call fails, and the number of its os
\* calls
CleanStep ==
  processPath(World(fs, 0, NoHow), items[idx], UserHomeDir, dotfilesRepoDir,
              args[1] = "sync")
CleanCalls == CleanStep.w.n
CommitMessage(command) ==
  IF command = "sync" THEN "Sync dotfiles changes" ELSE "Update dotfiles backup"

C11_InitAndSyncSameSteps ==
  [][/\ (pc = "dispatch" /\ Recognized /\ RepoIsDir(fs)) =>
          /\ fs' = fs
          /\ IF UserHomeDirOf(environ).err = "" THEN pc' = "loop"
             ELSE pc' = "exit" /\ output' = "fatal: $HOME is not defined"
     /\ (pc = "loop" /\ idx <= Len(items)) =>
          \E x \in FaultsOf(CleanStep) : (x.at > 0 <=> faults' > faults) /\ SameAsOther(x)
     /\ (pc = "commit" /\ pc' = "push") =>
          /\ git'[2].args = <<"commit", "-m", CommitMessage(args[1])>>
          /\ CommitMessage(args[1]) # CommitMessage(OtherCommand)
          /\ <<git'[1].args, git'[1].dir, git'[2].dir>> = <<<<"add", ".">>, Getwd, Getwd>>
     /\ (pc = "push" /\ pc' = "exit") => <<git'[3].args, git'[3].dir>> = <<<<"push">>, Getwd>>]_vars

\* a sync run copied, removed and symlinked a directory and committed
C11_Witness ==
  /\ args = <<"sync">> /\ RanToEnd
  /\ \E i \in 1..Len(log) :
       /\ log[i].msgs = <<"Updated directory", "Created symlink">>
       /\ CallsOf(log[i]) = {"Lstat", "copyDir", "RemoveAll", "Symlink"}

(***************************************************************************)
(* C12.  processPath calls os.Symlink only when, at the re-check after the *)
(* copy/delete step, nothing is at the source path and the repository path *)
(* exists.  A symlink it creates is a new entry at the item's source path  *)
(* and targets the item's own repository path; every entry that was there  *)
(* at the re-check is left as it was.  Without a successful os.Symlink the *)
(* symlink step changes nothing.                                           *)
(***************************************************************************)
LastCalls == log'[Len(log')].calls
SymlinkOnlyIfAbsent(b, sourcePath, destPath) ==
  /\ SubSeq(LastCalls, 1, Len(b.calls)) = b.calls
  /\ "Symlink" \in {LastCalls[j].call : j \in 1..Len(LastCalls)} =>
       /\ IsNotExist(Lstat(b.w.fs, sourcePath).err)
       /\ Stat(b.w.fs, destPath).err = ""
  /\ IF LastCalls[Len(LastCalls)] = Call("Symlink", "")
     THEN /\ PlaceOf(b.w.fs, sourcePath) \notin DOMAIN b.w.fs
          /\ fs' = (PlaceOf(b.w.fs, sourcePath) :> Link(destPath)) @@ b.w.fs
          /\ NodeAt(fs', sourcePath) = Link(destPath)
     ELSE fs' = b.w.fs

C12_SymlinkOnlyWhereAbsent ==
  [][(pc = "loop" /\ idx <= Len(items)) =>
       \E x \in FaultsOf(CleanStep) :
         /\ x.at > 0 <=> faults' > faults
         /\ SymlinkOnlyIfAbsent(
              backupStep(World(fs, x.at, x.how), items[idx], SourcePath(items[idx]),
                         DestPath(items[idx]), args[1] = "sync"),
              SourcePath(items[idx]), DestPath(items[idx]))]_vars

\* a symlink was created for an item absent from home, and another item was
\* left alone because something was still at its source path
C12_Witness ==
  /\ \E i \in 1..Len(log) :
       /\ log[i].msgs = <<"does not exist in home", "Created symlink">>
       /\ NodeAt(fs, SourcePath(log[i].item)) = Link(DestPath(log[i].item))
  /\ \E i \in 1..Len(log) :
       /\ "Symlink" \notin CallsOf(log[i])
       /\ NodeAt(fs, SourcePath(log[i].item)).kind \in {"link", "file", "dir"}
       /\ NodeAt(fs, DestPath(log[i].item)).kind # "none"

(***************************************************************************)
(* What was in home: the regular files at or below an item's source path,  *)
(* each with its bytes, named by their path relative to the source path.   *)
(***************************************************************************)
HasOriginal(t, item) == NodeAt(t, SourcePath(item)).kind \in {"file", "dir"}
FilesOf(t, item) ==
  {q \in DOMAIN t : IsPrefix(PlaceOf(t, SourcePath(item)), q) /\ t[q].kind = "file"}
Rel(t, item, q) == SubSeq(q, Len(PlaceOf(t, SourcePath(item))) + 1, Len(q))
\* every file of the item in tree t0 is, in tree t, in home or in the repository
ContentKept(t0, t, item) ==
  \A q \in FilesOf(t0, item) :
    \/ NodeAt(t, SourcePath(item) \o Rel(t0, item, q)) = t0[q]
    \/ NodeAt(t, DestPath(item) \o Rel(t0, item, q)) = t0[q]
\* in tree t the source path is a symlink to the repository copy, which holds
\* every file of the item in tree t0
MovedToRepo(t0, t, item) ==
  /\ NodeAt(t, SourcePath(item)) = Link(DestPath(item))
  /\ \A q \in FilesOf(t0, item) : NodeAt(t, DestPath(item) \o Rel(t0, item, q)) = t0[q]

(***************************************************************************)
(* C13.  Crash recovery.  When a run is killed between two filesystem      *)
(* operations of an item whose source is a file or a directory, the item's *)
(* original content is still in home or in the repository; and after the   *)
(* next run, if it is complete (no I/O failure occurs), the source         *)
(* path is a symlink to the repository copy and that copy holds the        *)
(* original content.  Stated for items that were about to be processed     *)
(* with the dotfiles directory still empty.                                *)
(***************************************************************************)
KilledLast == killed[Len(killed)]
C13_CrashRecovery ==
  (/\ killed # <<>>
   /\ HasOriginal(KilledLast.fs, KilledLast.item)
   /\ ReadDir(KilledLast.fs, dotfilesRepoDir) = [err |-> "", entries |-> <<>>]) =>
       /\ (pc = "exit" /\ exitCode = 137) =>
            ContentKept(KilledLast.fs, fs, KilledLast.item)
       /\ (RanToEnd /\ history[Len(history)].exitCode = 137) =>
            MovedToRepo(KilledLast.fs, fs, KilledLast.item)

(***************************************************************************)
(* C14.  No data loss on copy failure.  processPath removes an item's      *)
(* original from home only after the copy to the repository succeeded, so  *)
(* at every point of a run, whatever call failed, every file that was at   *)
(* or below the source path of a processed item when the run started is    *)
(* still in home or in the repository, with its bytes.                     *)
(***************************************************************************)
Removes == {"Remove", "RemoveAll"}
CopyFailed(entry) ==
  \E j \in 1..Len(entry.calls) :
    entry.calls[j].call \in {"copyFile", "copyDir"} /\ entry.calls[j].err # ""
C14_RemovedOnlyAfterCopy ==
  \A i \in 1..Len(log) :
    /\ CopyFailed(log[i]) => CallsOf(log[i]) \cap Removes = {}
    /\ HasOriginal(fs0, log[i].item) => ContentKept(fs0, fs, log[i].item)

(***************************************************************************)
(* C15.  Item independence.  Processing one tracked item never modifies or *)
(* removes the home entry or the repository copy of a different tracked    *)
(* item, also when one item's path is nested under the other's.  Stated in *)
(* its weakest form, for steps in which no call is made to fail and the    *)
(* copy succeeds: the files at or below the other item's source path are   *)
(* still in home or in the repository with their bytes, and no file of the *)
(* other item's repository copy disappears.                                *)
(***************************************************************************)
RepoFilesKept(t0, t, item) ==
  \A q \in DOMAIN t0 :
    (IsPrefix(PlaceOf(t0, DestPath(item)), q) /\ t0[q].kind = "file")
    => NodeAt(t, q).kind = "file"

C15_ItemsIndependent ==
  [][(/\ pc = "loop" /\ idx <= Len(items)
      /\ faults' = 0
      /\ ~CopyFailed(log'[Len(log')]))
     => \A k \in 1..Len(items) :
          items[k] # items[idx] =>
            /\ HasOriginal(fs, items[k]) => ContentKept(fs, fs', items[k])
            /\ RepoFilesKept(fs, fs', items[k])]_vars

(***************************************************************************)
(* C16.  Termination.  For every finite tree and config list, also when    *)
(* <cwd>/dotfiles lies inside the tracked directory being copied, every    *)
(* step of a run is a step forward: in the loop the next item is processed *)
(* with a bounded number of os calls and the loop moves to the next item,  *)
(* after the last item comes git add, then commit, then push and the end   *)
(* of the run with every item processed.  So a run ends within             *)
(* Len(items) + 3 steps of entering the loop.                              *)
(* The copy of a directory into itself does end: copyDir makes a bounded   *)
(* number of calls per level, and the levels end with ENAMETOOLONG once    *)
(* the paths it builds are too long for the os calls.  A tracked path that *)
(* is, or holds, a named pipe does not: os.Open in copyFile never returns. *)
(***************************************************************************)
C16_RunTerminates ==
  [][/\ (pc = "loop" /\ idx <= Len(items)) =>
          /\ CleanCalls <= 7 * MaxPath
          /\ pc' = "loop" /\ idx' = idx + 1 /\ Len(log') = Len(log) + 1
     /\ (pc = "loop" /\ idx > Len(items)) => pc' = "commit"
     /\ pc = "commit" => pc' = "push"
     /\ pc = "push" =>
          /\ pc' = "exit"
          /\ Len(log') = Len(items) /\ Len(git') = 3]_vars

====
